---- MODULE Spec2Model ----
(***************************************************************************)
(* Backtest simulator, strategy validation, market snapshot and pattern    *)
(* detector windows of auto-trader-fullstack, as state machines.           *)
(*                                                                         *)
(* Money is in whole currency units, position_size_pct in percent,         *)
(* strategy position sizes in tenths (0.1 is 1).                           *)
(***************************************************************************)
EXTENDS Integers, Sequences, FiniteSets, TLC

\* ------------------------------------------------------------------ bounds
\* Number of bars of a backtested series.
NBars == 3
\* Largest price of a strategy handed to validate_strategy.
MaxPrice == 3
\* Period of the simple moving average of the snapshot (sma_200, scaled to
\* the series length).
SmaPeriod == 2
\* Period of the average true range (14, scaled to the series length).
AtrPeriod == 2
\* Span of the exponential moving average of the snapshot (ema_21).
EmaSpan == 21
\* Windows of the pattern detectors, scaled to the series length:
\* double top/bottom (20), head and shoulders (30), CryptoPatternAnalyzer
\* Wyckoff (30) and orderblock (15), PatternAnalyzer Wyckoff (100), and the
\* rows PatternAnalyzer hands to the orderblock strength (10).
DoubleTopWindow == 2
HeadShouldersWindow == 2
WyckoffWindow == 2
OrderblockWindow == 1
PaWyckoffWindow == 2
StrengthRows == 2

\* ------------------------------------------------------------ value domain
\* A JSON value of a strategy field: a number, or null (not comparable).
Num(n) == [k |-> "num", v |-> n]
NoneVal == [k |-> "none", v |-> 0]

RequiredFields ==
  {"action", "symbol", "entry_price", "stop_loss", "take_profit",
   "position_size", "timeframe"}

AllFields == RequiredFields \cup {"strategy_type"}

VARIABLES
  \* arguments of run_backtest and the collaborators' configuration
  historical_data, options_chain_data, start_date, end_date,
  initial_capital, position_size_pct,
  strategy_generator, mock_mode, max_position_size,
  \* locals of run_backtest and the position of the coroutine
  pc, idx, awaiting, trades, equity, current_capital,
  \* what the bar processed last received from its collaborators
  last,
  \* validate_strategy under test
  strategy, verdict,
  \* a second series that differs from historical_data in later bars, and
  \* what was computed at one position of both
  altered_data, altered_options, observed,
  \* a run repeated on recorded collaborator responses
  inputs, run, first,
  \* _identify_market_regimes and the loop of _get_regime_periods
  rolling_vol, mask, pos, current_start, periods, regimes, phase,
  \* the scan of _find_double_tops_bottoms over a frame
  bars, scan, patterns,
  \* _validate_patterns_with_ml over the detected patterns
  detected, scores, validated, vpc,
  \* analyze_options_market and _enrich_market_data on one market_data
  option_data, analysis, enriched,
  \* _calculate_performance_metrics on a trade log
  trade_log, metrics,
  \* generate_strategy: where the coroutine is, the remote run, its answer,
  \* and what the call returns
  gpc, run_status, response, returned,
  \* analyze_chart_patterns: the finder at work
  finder

vars ==
  <<historical_data, options_chain_data, start_date, end_date,
    initial_capital, position_size_pct,
    strategy_generator, mock_mode, max_position_size,
    pc, idx, awaiting, trades, equity, current_capital, last,
    strategy, verdict, altered_data, altered_options, observed,
    inputs, run, first,
    rolling_vol, mask, pos, current_start, periods, regimes, phase,
    bars, scan, patterns, detected, scores, validated, vpc,
    option_data, analysis, enriched, trade_log, metrics,
    gpc, run_status, response, returned, finder>>

regime_vars == <<rolling_vol, mask, pos, current_start, periods, regimes, phase>>
scan_vars == <<bars, scan, patterns>>
ml_vars == <<detected, scores, validated, vpc>>

options_vars == <<option_data, analysis, enriched>>
metrics_vars == <<trade_log, metrics>>
gen_vars == <<gpc, run_status, response, returned>>
chart_vars == <<finder>>

\* State of the options analysis, the metrics, generate_strategy and
\* analyze_chart_patterns.
late == <<options_vars, metrics_vars, gen_vars, chart_vars>>

\* State of the regime segmentation, the pattern scan, the validation and
\* the components above.
ext == <<regime_vars, scan_vars, ml_vars, late>>

\* ------------------------------------------------- StrategyGenerator (strategy.py)
MockStrategy ==
  [fields |-> AllFields, action |-> "BUY", strategy_type |-> "mock_strategy",
   entry_price |-> Num(50000), stop_loss |-> Num(49000),
   take_profit |-> Num(52000), position_size |-> Num(1)]

\* Python's a < b: a TypeError unless both are numbers.
Comparable(a, b) == a.k = "num" /\ b.k = "num"

\* Python's chained a < b < c: b < c is evaluated only when a < b is true.
ChainLt(a, b, c) ==
  IF ~Comparable(a, b) THEN "Raise"
  ELSE IF ~(a.v < b.v) THEN "False"
  ELSE IF ~Comparable(b, c) THEN "Raise"
  ELSE IF b.v < c.v THEN "True" ELSE "False"

\* Python's chained a > b > c.
ChainGt(a, b, c) ==
  IF ~Comparable(a, b) THEN "Raise"
  ELSE IF ~(a.v > b.v) THEN "False"
  ELSE IF ~Comparable(b, c) THEN "Raise"
  ELSE IF b.v > c.v THEN "True" ELSE "False"

\* The body of the try block of validate_strategy: "Raise" is an exception.
ValidateBodyNoSell(s) ==
  IF ~(RequiredFields \subseteq s.fields) THEN "False"
  ELSE LET prices ==
             IF s.action = "BUY"
               THEN ChainLt(s.stop_loss, s.entry_price, s.take_profit)
               ELSE "True"
       IN IF prices # "True" THEN prices
          ELSE IF s.position_size.k # "num" THEN "Raise"
          ELSE IF s.position_size.v > max_position_size THEN "False"
          ELSE "True"

ValidateBodyOrderAlways(s) ==
  IF ~(RequiredFields \subseteq s.fields) THEN "False"
  ELSE LET prices ==
             IF s.action = "SELL"
               THEN ChainGt(s.stop_loss, s.entry_price, s.take_profit)
               ELSE ChainLt(s.stop_loss, s.entry_price, s.take_profit)
       IN IF prices # "True" THEN prices
          ELSE IF s.position_size.k # "num" THEN "Raise"
          ELSE IF s.position_size.v > max_position_size THEN "False"
          ELSE "True"

ValidateBody(s) ==
  IF ~(RequiredFields \subseteq s.fields) THEN "False"
  ELSE LET prices ==
             IF s.action = "BUY"
               THEN ChainLt(s.stop_loss, s.entry_price, s.take_profit)
             ELSE IF s.action = "SELL"
               THEN ChainGt(s.stop_loss, s.entry_price, s.take_profit)
             ELSE "True"
       IN IF prices # "True" THEN prices
          ELSE IF s.position_size.k # "num" THEN "Raise"
          ELSE IF s.position_size.v > max_position_size THEN "False"
          ELSE "True"

\* validate_strategy: the except clause turns any exception into False.
validate_strategy_uncaught(s) == ValidateBody(s)

validate_strategy(s) ==
  IF ValidateBody(s) = "Raise" THEN "False" ELSE ValidateBody(s)

\* What the assistant's reply amounts to on one bar: an exception anywhere in
\* the try block of generate_strategy (API error, unparsable reply), or a
\* parsed dict.
Proposal(fields, action, stop, entry, target, size) ==
  [fields |-> fields, action |-> action, strategy_type |-> "llm_strategy",
   entry_price |-> entry, stop_loss |-> stop, take_profit |-> target,
   position_size |-> size]

ValidBuy == Proposal(AllFields, "BUY", Num(1), Num(2), Num(3), Num(1))
ValidSellUntyped == Proposal(RequiredFields, "SELL", Num(3), Num(2), Num(1), Num(1))
BadOrderBuy == Proposal(AllFields, "BUY", Num(3), Num(2), Num(1), Num(1))
BadOrderSell == Proposal(AllFields, "SELL", Num(1), Num(2), Num(3), Num(1))
Oversize == Proposal(AllFields, "BUY", Num(1), Num(2), Num(3), Num(max_position_size + 1))
MissingStop == Proposal(AllFields \ {"stop_loss"}, "BUY", Num(1), Num(2), Num(3), Num(1))
NullPrice == Proposal(AllFields, "SELL", Num(3), NoneVal, Num(1), Num(1))

SimProposals ==
  {ValidBuy, ValidSellUntyped, BadOrderBuy, BadOrderSell, Oversize, MissingStop, NullPrice}

LLMError == [kind |-> "error", proposal |-> MockStrategy]
LLMOutcomes == {LLMError} \cup {[kind |-> "proposal", proposal |-> p] : p \in SimProposals}

\* generate_strategy: the mock strategy in mock mode, the validated proposal
\* otherwise; an invalid proposal raises ValueError inside the try block, and
\* every exception is answered with the mock strategy.
generate_strategy_unvalidated(llm) ==
  IF mock_mode THEN MockStrategy
  ELSE IF llm.kind = "error" THEN MockStrategy
  ELSE llm.proposal

generate_strategy_none_on_error(llm) ==
  IF mock_mode THEN MockStrategy
  ELSE IF llm.kind = "error"
    THEN [MockStrategy EXCEPT !.fields = {}]
  ELSE IF validate_strategy(llm.proposal) = "True" THEN llm.proposal
  ELSE MockStrategy

generate_strategy(llm) ==
  IF mock_mode THEN MockStrategy
  ELSE IF llm.kind = "error" THEN MockStrategy
  ELSE IF validate_strategy(llm.proposal) = "True" THEN llm.proposal
  ELSE MockStrategy

\* --------------------------------------------------- Backtester (backtester.py)
Max(a, b) == IF a >= b THEN a ELSE b
Min(a, b) == IF a <= b THEN a ELSE b
Abs(a) == IF a >= 0 THEN a ELSE -a

RECURSIVE Pow(_, _)
Pow(b, e) == IF e = 0 THEN 1 ELSE b * Pow(b, e - 1)

\* A bar: high and low bracket open and close.
Bar(t, o, c, v) ==
  [timestamp |-> t, open |-> o, high |-> Max(o, c), low |-> Min(o, c),
   close |-> c, volume |-> v]

NaN == [k |-> "nan", num |-> 0, den |-> 1]
Ratio(n, d) == [k |-> "ratio", num |-> n, den |-> d]

RECURSIVE SumClose(_, _, _)
SumClose(df, lo, hi) ==
  IF lo > hi THEN 0 ELSE df[hi].close + SumClose(df, lo, hi - 1)

\* df['close'].rolling(window=period).mean() at row i: the mean of the last
\* `period` closes, NaN while fewer rows exist.
RollingMeanCentered(df, i, period) ==
  IF i < period \/ i + 1 > Len(df) THEN NaN
  ELSE Ratio(SumClose(df, i - period + 2, i + 1), period)

RollingMean(df, i, period) ==
  IF i < period THEN NaN
  ELSE Ratio(SumClose(df, i - period + 1, i), period)

\* df['close'].ewm(span=span, adjust=False).mean() at row i, as a numerator
\* over (span+1)^(i-1): y1 = x1, yt = ((span-1) y(t-1) + 2 xt) / (span+1).
RECURSIVE EwmNum(_, _, _)
EwmNum(df, i, span) ==
  IF i = 1 THEN df[1].close
  ELSE (span - 1) * EwmNum(df, i - 1, span)
       + 2 * df[i].close * Pow(span + 1, i - 2)

Ewm(df, i, span) == Ratio(EwmNum(df, i, span), Pow(span + 1, i - 1))

\* True range of row i: high - low on the first row.
TrueRange(df, i) ==
  IF i = 1 THEN df[1].high - df[1].low
  ELSE Max(df[i].high - df[i].low,
           Max(Abs(df[i].high - df[i - 1].close),
               Abs(df[i].low - df[i - 1].close)))

RECURSIVE SumTrueRange(_, _, _)
SumTrueRange(df, lo, hi) ==
  IF lo > hi THEN 0 ELSE TrueRange(df, hi) + SumTrueRange(df, lo, hi - 1)

\* _calculate_atr as a series: the mean true range of the last AtrPeriod rows.
calculate_atr(df, i) ==
  IF i < AtrPeriod THEN NaN
  ELSE Ratio(SumTrueRange(df, i - AtrPeriod + 1, i), AtrPeriod)

\* _calculate_historical_volatility as a series: a function of the closes up
\* to row i, kept as those closes.
calculate_historical_volatility(df, i) == [j \in 1..i |-> df[j].close]

\* _calculate_iv_rank_series and _calculate_pcr_series: the options context
\* of row i.
calculate_iv_rank_series(df, options, i) == options[i].iv_rank

calculate_pcr_series(options, i) == options[i].put_call_ratio

\* _prepare_data: the row i of the prepared frame.
prepare_data(df, options, i) ==
  [timestamp |-> df[i].timestamp,
   open |-> df[i].open, high |-> df[i].high, low |-> df[i].low,
   close |-> df[i].close, volume |-> df[i].volume,
   sma_200 |-> RollingMean(df, i, SmaPeriod),
   ema_21 |-> Ewm(df, i, EmaSpan),
   atr |-> calculate_atr(df, i),
   historical_volatility |-> calculate_historical_volatility(df, i),
   iv_rank |-> calculate_iv_rank_series(df, options, i),
   put_call_ratio |-> calculate_pcr_series(options, i)]

\* _get_market_snapshot of the prepared row.
get_market_snapshot(frame) ==
  [price_data |-> [open |-> frame.open, high |-> frame.high, low |-> frame.low,
                   close |-> frame.close, volume |-> frame.volume],
   technical_indicators |-> [sma_200 |-> frame.sma_200, ema_21 |-> frame.ema_21,
                             atr |-> frame.atr,
                             historical_volatility |-> frame.historical_volatility],
   options_data |-> [iv_rank |-> frame.iv_rank,
                     put_call_ratio |-> frame.put_call_ratio],
   timestamp |-> frame.timestamp]

MarketData(i) ==
  get_market_snapshot(prepare_data(historical_data, options_chain_data, i))

\* A strategy generator that answers None on every bar.
NoStrategy ==
  [fields |-> {}, action |-> "", strategy_type |-> "",
   entry_price |-> NoneVal, stop_loss |-> NoneVal, take_profit |-> NoneVal,
   position_size |-> NoneVal]

\* Python's truth value of the returned strategy: None and {} are false.
Truthy(s) == s.fields # {}

\* The strategy the awaited call returns.
Oracle(llm) ==
  IF strategy_generator = "NoProposal" THEN NoStrategy
  ELSE generate_strategy(llm)

\* How the simulated fill of a trade ends: _simulate_options_prices,
\* _simulate_exit_price and _calculate_trade_pnl either raise or price it.
ExecOutcomes == {"win", "loss", "error"}

simulate_exit_price(s, market_data, exec) ==
  IF exec = "win" THEN s.take_profit ELSE s.stop_loss

calculate_trade_pnl(s, position_size, exec) ==
  IF exec = "win" THEN position_size ELSE -position_size

\* _execute_trade: the trade record in a one-element sequence, or the empty
\* sequence for None (an exception in the try block, a missing
\* 'strategy_type' key among them).
execute_trade_flat_on_error(s, market_data, capital, pct, exec) ==
  LET position_size == (capital * pct) \div 100
      entry_price == market_data.price_data.close
  IN << [entry_time |-> market_data.timestamp,
         strategy_type |-> IF "strategy_type" \in s.fields
                             THEN s.strategy_type ELSE "",
         position_size |-> position_size,
         entry_price |-> entry_price,
         exit_price |-> simulate_exit_price(s, market_data, exec),
         pnl |-> IF exec = "error" \/ "strategy_type" \notin s.fields
                   THEN 0 ELSE calculate_trade_pnl(s, position_size, exec),
         options_data |-> market_data.options_data.iv_rank] >>

execute_trade(s, market_data, capital, pct, exec) ==
  LET position_size == (capital * pct) \div 100
      entry_price == market_data.price_data.close
  IN IF exec = "error" THEN <<>>
     ELSE IF "strategy_type" \notin s.fields THEN <<>>
     ELSE << [entry_time |-> market_data.timestamp,
              strategy_type |-> s.strategy_type,
              position_size |-> position_size,
              entry_price |-> entry_price,
              exit_price |-> simulate_exit_price(s, market_data, exec),
              pnl |-> calculate_trade_pnl(s, position_size, exec),
              options_data |-> market_data.options_data.iv_rank] >>

\* The bar series of the runs: rising and falling closes.
BtSeries ==
  { [i \in 1..NBars |-> Bar(i, i, i + 1, 1)],
    [i \in 1..NBars |-> Bar(i, NBars - i + 2, NBars - i + 1, 2)] }

BtOptions == [i \in 1..NBars |-> [iv_rank |-> 50, put_call_ratio |-> 1]]

NoLast ==
  [bar |-> 0, llm |-> LLMError, exec |-> "error", traded |-> FALSE,
   trades |-> <<>>, equity |-> <<>>, capital |-> 0]

InitArgs ==
  /\ historical_data \in BtSeries
  /\ options_chain_data = BtOptions
  /\ start_date \in {1, 2}
  /\ end_date \in {NBars - 1, NBars}
  /\ initial_capital \in {100000}
  /\ position_size_pct \in {2}
  /\ strategy_generator \in {"StrategyGenerator", "NoProposal"}
  /\ mock_mode \in BOOLEAN
  /\ max_position_size \in {1, 2}

\* run_backtest lines 41-43.
InitRun ==
  /\ trades = <<>>
  /\ equity = <<initial_capital>>
  /\ current_capital = initial_capital

NoObservation == [kind |-> "none", detector |-> "", at |-> 0, a |-> <<>>, b |-> <<>>]
NoResult == [trades |-> <<>>, equity |-> <<>>]

\* No regime segmentation is under way.
NoRegime ==
  /\ rolling_vol = <<>>
  /\ mask = <<>>
  /\ pos = 0
  /\ current_start = 0
  /\ periods = <<>>
  /\ regimes = [high_volatility |-> <<>>, low_volatility |-> <<>>]
  /\ phase = "idle"

\* No pattern scan is under way.
NoScan ==
  /\ bars = <<>>
  /\ scan = 0
  /\ patterns = <<>>

\* No pattern validation is under way.
NoValidation ==
  /\ detected = <<>>
  /\ scores = <<>>
  /\ validated = <<>>
  /\ vpc = "idle"

\* No options analysis is under way.
NoOptions ==
  /\ option_data = <<>>
  /\ analysis = <<>>
  /\ enriched = <<>>

\* No metrics are being calculated.
NoMetrics ==
  /\ trade_log = <<>>
  /\ metrics = <<>>

\* generate_strategy is followed as one step of run_backtest.
NoGenerate ==
  /\ gpc = "idle"
  /\ run_status = "none"
  /\ response = <<>>
  /\ returned = <<>>

\* analyze_chart_patterns is not called.
NoCharts == finder = "idle"

NoLate == NoOptions /\ NoMetrics /\ NoGenerate /\ NoCharts

NoExt == NoRegime /\ NoScan /\ NoValidation /\ NoLate

\* Nothing is compared and nothing is repeated.
NoCompare ==
  /\ altered_data = historical_data
  /\ altered_options = options_chain_data
  /\ observed = NoObservation
  /\ inputs = <<>>
  /\ run = 1
  /\ first = NoResult

NoSide == NoExt /\ NoCompare

Init ==
  /\ InitArgs
  /\ InitRun
  /\ pc = "loop"
  /\ idx = 0
  /\ awaiting = {}
  /\ last = NoLast
  /\ strategy = NoStrategy
  /\ verdict = "unset"
  /\ NoSide

\* State outside a single run of Spec.
side ==
  <<strategy, verdict, altered_data, altered_options, observed, inputs, run, first,
    ext>>

args ==
  <<historical_data, options_chain_data, start_date, end_date, initial_capital,
    position_size_pct, strategy_generator, mock_mode, max_position_size>>

\* `if start_date <= timestamp <= end_date`
InRangeHalfOpen(i) ==
  /\ start_date <= historical_data[i].timestamp
  /\ historical_data[i].timestamp < end_date

InRange(i) ==
  /\ start_date <= historical_data[i].timestamp
  /\ historical_data[i].timestamp <= end_date

\* The coroutine runs only while it is not suspended in an await.
NeverSuspended == FALSE

Suspended == awaiting # {}

\* The for loop takes the next row: an in-range row builds its snapshot and
\* awaits generate_strategy, another row is passed over.
Iterate ==
  /\ pc \in {"loop", "await"}
  /\ ~Suspended
  /\ idx < Len(historical_data)
  /\ idx' = idx + 1
  /\ IF InRange(idx + 1)
       THEN awaiting' = awaiting \cup {idx + 1} /\ pc' = "await"
       ELSE awaiting' = awaiting /\ pc' = pc
  /\ UNCHANGED <<args, trades, equity, current_capital, last, side>>

\* Lines 67-69: the trade, the capital and the equity point of one bar.
CommitStaleEquity(trade_result) ==
  /\ trades' = trades \o trade_result
  /\ current_capital' = current_capital + trade_result[1].pnl
  /\ equity' = Append(equity, current_capital)

CommitNoEquity(trade_result) ==
  /\ trades' = trades \o trade_result
  /\ current_capital' = current_capital + trade_result[1].pnl
  /\ equity' = equity

CommitNewestFirst(trade_result) ==
  /\ trades' = trade_result \o trades
  /\ current_capital' = current_capital + trade_result[1].pnl
  /\ equity' = <<current_capital + trade_result[1].pnl>> \o equity

Commit(trade_result) ==
  /\ trades' = trades \o trade_result
  /\ current_capital' = current_capital + trade_result[1].pnl
  /\ equity' = Append(equity, current_capital + trade_result[1].pnl)

\* The awaited generate_strategy of bar b returns; lines 58-69 run.
OracleReturnEveryBar(b, llm, exec) ==
  /\ pc = "await"
  /\ b \in awaiting
  /\ LET s == Oracle(llm)
         trade_result ==
           IF Truthy(s)
             THEN execute_trade(s, MarketData(b), current_capital,
                                position_size_pct, exec)
             ELSE <<>>
     IN /\ IF trade_result # <<>>
             THEN Commit(trade_result)
             ELSE /\ equity' = Append(equity, current_capital)
                  /\ UNCHANGED <<trades, current_capital>>
        /\ last' = [bar |-> b, llm |-> llm, exec |-> exec,
                    traded |-> trade_result # <<>>,
                    trades |-> trades, equity |-> equity,
                    capital |-> current_capital]
  /\ awaiting' = awaiting \ {b}
  /\ pc' = IF awaiting' = {} THEN "loop" ELSE "await"
  /\ UNCHANGED <<args, idx, side>>

OracleReturn(b, llm, exec) ==
  /\ pc = "await"
  /\ b \in awaiting
  /\ LET s == Oracle(llm)
         trade_result ==
           IF Truthy(s)
             THEN execute_trade(s, MarketData(b), current_capital,
                                position_size_pct, exec)
             ELSE <<>>
     IN /\ IF trade_result # <<>>
             THEN Commit(trade_result)
             ELSE UNCHANGED <<trades, equity, current_capital>>
        /\ last' = [bar |-> b, llm |-> llm, exec |-> exec,
                    traded |-> trade_result # <<>>,
                    trades |-> trades, equity |-> equity,
                    capital |-> current_capital]
  /\ awaiting' = awaiting \ {b}
  /\ pc' = IF awaiting' = {} THEN "loop" ELSE "await"
  /\ UNCHANGED <<args, idx, side>>

\* The task is cancelled while suspended: CancelledError leaves the await and
\* run_backtest (no except clause catches it).
Cancel ==
  /\ pc = "await"
  /\ pc' = "cancelled"
  /\ awaiting' = {}
  /\ UNCHANGED <<args, idx, trades, equity, current_capital, last, side>>

\* The loop is exhausted and the result is returned.
Finish ==
  /\ pc = "loop"
  /\ idx = Len(historical_data)
  /\ pc' = "done"
  /\ UNCHANGED <<args, idx, awaiting, trades, equity, current_capital, last,
                 side>>

Next ==
  \/ Iterate
  \/ \E b \in 1..NBars, llm \in LLMOutcomes, exec \in ExecOutcomes :
       OracleReturn(b, llm, exec)
  \/ Cancel
  \/ Finish

Spec == Init /\ [][Next]_vars

\* ------------------------------------------------------------------ claims
RECURSIVE SumPnl(_, _)
SumPnl(log, k) == IF k = 0 THEN 0 ELSE log[k].pnl + SumPnl(log, k - 1)

IsPrefix(a, b) ==
  /\ Len(a) <= Len(b)
  /\ \A k \in 1..Len(a) : b[k] = a[k]

EquityReconciles ==
  /\ Len(equity) = Len(trades) + 1
  /\ \A k \in 0..Len(trades) :
       equity[k + 1] = initial_capital + SumPnl(trades, k)

\* C1: between bars the equity curve has one point per recorded trade after
\* its first point initial_capital, point k is initial_capital plus the pnl
\* of the first k trades, and a step never changes a point already there.
C1_EquityCurve == [](EquityReconciles) /\ [][IsPrefix(equity, equity')]_vars

C1_Witness ==
  /\ pc = "loop"
  /\ Len(trades) >= 2
  /\ trades[1].pnl > 0
  /\ trades[2].pnl < 0

AllInRange == \A i \in 1..NBars : InRange(i)

\* C2 as stated: with an oracle that never proposes, a finished run over N
\* in-range bars has no trades and N equity points, all initial_capital.
C2_Original ==
  (pc = "done" /\ strategy_generator = "NoProposal" /\ AllInRange)
    => /\ trades = <<>>
       /\ equity = [k \in 1..NBars |-> initial_capital]

\* C2 amended: with an oracle that never proposes, a finished run has no
\* trades and an equity curve of the single point initial_capital, however
\* many bars were in range.
C2_NoProposalRun ==
  (pc = "done" /\ strategy_generator = "NoProposal")
    => /\ trades = <<>>
       /\ equity = <<initial_capital>>

C2_Witness ==
  /\ pc = "done"
  /\ strategy_generator = "NoProposal"
  /\ AllInRange
  /\ last.bar = NBars

LiveGenerator == strategy_generator = "StrategyGenerator" /\ ~mock_mode

BarLeftNoTrace ==
  /\ ~last.traded
  /\ trades = last.trades
  /\ equity = last.equity
  /\ current_capital = last.capital

\* The bar processed last recorded exactly one trade, of the mock strategy,
\* with its capital and equity point.
BarTradedMock ==
  /\ last.traded
  /\ Len(trades) = Len(last.trades) + 1
  /\ IsPrefix(last.trades, trades)
  /\ trades[Len(trades)].strategy_type = "mock_strategy"
  /\ trades[Len(trades)].entry_time = historical_data[last.bar].timestamp
  /\ current_capital = last.capital + trades[Len(trades)].pnl
  /\ equity = Append(last.equity, current_capital)

RunGoesOn == pc = "loop" => ENABLED (Iterate \/ Finish)

InvalidProposals == {BadOrderBuy, BadOrderSell, Oversize, MissingStop, NullPrice}

LastInvalid ==
  /\ last.bar # 0
  /\ LiveGenerator
  /\ last.llm.kind = "proposal"
  /\ last.llm.proposal \in InvalidProposals

TradesInBarOrder ==
  \A j, k \in 1..Len(trades) :
    j < k => trades[j].entry_time < trades[k].entry_time

\* C9: at most one bar is in flight, it is the row the loop stands on, every
\* logged trade belongs to an earlier row in row order with its capital and
\* equity point, and while a bar awaits the only step that writes the trade
\* log, the capital or the equity curve is the return of that bar's call.
C9_OrderedPass ==
  /\ [](/\ Cardinality(awaiting) <= 1
        /\ awaiting \subseteq {idx}
        /\ TradesInBarOrder
        /\ \A b \in awaiting : \A k \in 1..Len(trades) :
             trades[k].entry_time < historical_data[b].timestamp
        /\ \A b \in awaiting :
             /\ Len(equity) = Len(trades) + 1
             /\ current_capital = equity[Len(equity)])
  /\ [][(pc = "await" /\ <<trades, equity, current_capital>>
                           # <<trades', equity', current_capital'>>)
          => (awaiting = {idx} /\ awaiting' = {} /\ idx' = idx
              /\ last'.bar = idx)]_vars

C9_Witness ==
  /\ pc = "await"
  /\ awaiting = {idx}
  /\ Len(trades) >= 1
  /\ last.bar = idx - 1
  /\ last.traded

\* C10: a run cancelled in the awaited oracle call holds one equity point
\* more than trades, its capital is the last equity point, trade k and
\* equity point k+1 belong together, and the cancelled bar wrote nothing.
C10_CancelConsistent ==
  pc = "cancelled"
    => /\ Len(equity) = Len(trades) + 1
       /\ current_capital = equity[Len(equity)]
       /\ \A k \in 1..Len(trades) : equity[k + 1] = equity[k] + trades[k].pnl
       /\ \A k \in 1..Len(trades) :
            trades[k].entry_time < historical_data[idx].timestamp

C10_Witness ==
  /\ pc = "cancelled"
  /\ Len(trades) >= 1
  /\ idx = NBars

\* Entry times never decrease along the trade log.
EntryTimesAscend ==
  \A j, k \in 1..Len(trades) :
    j <= k => trades[j].entry_time <= trades[k].entry_time

SizingPcts == {-2, 0, 2, 100, 150}

InitSizing ==
  /\ historical_data = [i \in 1..NBars |-> Bar(i, i, i + 1, 1)]
  /\ options_chain_data = BtOptions
  /\ start_date = 1
  /\ end_date = NBars
  /\ initial_capital \in {100000}
  /\ position_size_pct \in SizingPcts
  /\ strategy_generator = "StrategyGenerator"
  /\ mock_mode \in BOOLEAN
  /\ max_position_size = 2
  /\ InitRun
  /\ pc = "loop"
  /\ idx = 0
  /\ awaiting = {}
  /\ last = NoLast
  /\ strategy = NoStrategy
  /\ verdict = "unset"
  /\ NoSide

SpecSizing == InitSizing /\ [][Next]_vars

\* C12: every recorded trade has a position size above zero and at most the
\* capital held when it was entered (equity[k] is the capital before trade
\* k), whatever the earlier trades made and whatever position_size_pct is.
C12_PositionSizeBounded ==
  \A k \in 1..Len(trades) :
    /\ k <= Len(equity)
    /\ trades[k].position_size > 0
    /\ trades[k].position_size <= equity[k]

\* ------------------------------------------------------ pattern detectors
\* df.iloc[lo:hi] of the 0-based rows lo..hi-1, cut at the ends as pandas does.
Iloc(df, lo, hi) ==
  [j \in 1..(Min(hi, Len(df)) - Max(lo, 0)) |-> df[Max(lo, 0) + j]]

RECURSIVE SumVolume(_, _)
SumVolume(df, n) == IF n = 0 THEN 0 ELSE df[n].volume + SumVolume(df, n - 1)

NoPattern == <<>>

\* for i in range(window, len(df)): slice_df = df.iloc[i-window:i]; what the
\* detector emits is computed from slice_df alone and is kept as slice_df.
TrailingDetector(type, df, i, window) ==
  IF i >= window /\ i < Len(df)
    THEN <<[type |-> type, slice_df |-> Iloc(df, i - window, i)]>>
    ELSE NoPattern

\* TechnicalAnalysis._find_double_tops_bottoms and _find_head_and_shoulders.
find_double_tops_bottoms(df, i) ==
  TrailingDetector("double_top_bottom", df, i, DoubleTopWindow)

find_head_and_shoulders(df, i) ==
  TrailingDetector("head_and_shoulders", df, i, HeadShouldersWindow)

\* CryptoPatternAnalyzer._find_wyckoff_accumulation and _find_orderblocks.
find_wyckoff_accumulation(df, i) ==
  TrailingDetector("wyckoff_spring", df, i, WyckoffWindow)

find_orderblocks(df, i) ==
  TrailingDetector("orderblock", df, i, OrderblockWindow)

\* PatternAnalyzer._analyze_wyckoff: for i in range(len(data) - window) the
\* slice data.iloc[i:i+window].
analyze_wyckoff(data, i) ==
  IF i >= 0 /\ i < Len(data) - PaWyckoffWindow
    THEN <<[type |-> "wyckoff_accumulation", start_idx |-> i,
            end_idx |-> i + PaWyckoffWindow,
            slice_df |-> Iloc(data, i, i + PaWyckoffWindow)]>>
    ELSE NoPattern

\* PatternAnalyzer._analyze_orderblocks: for i in range(len(data) - 1) the
\* candle data.iloc[i], its volume over the mean volume of the whole frame,
\* and a strength computed from data.iloc[i:i+10].
analyze_orderblocks(data, i) ==
  IF i >= 0 /\ i < Len(data) - 1
    THEN <<[type |-> "orderblock",
            candle |-> data[i + 1],
            price_level |-> data[i + 1].close,
            volume_ratio |-> Ratio(data[i + 1].volume * Len(data),
                                   SumVolume(data, Len(data))),
            strength |-> Iloc(data, i, i + StrengthRows)]>>
    ELSE NoPattern

Detectors ==
  {"find_double_tops_bottoms", "find_head_and_shoulders",
   "find_wyckoff_accumulation", "find_orderblocks",
   "analyze_wyckoff", "analyze_orderblocks"}

Detect(d, df, i) ==
  CASE d = "find_double_tops_bottoms" -> find_double_tops_bottoms(df, i)
    [] d = "find_head_and_shoulders" -> find_head_and_shoulders(df, i)
    [] d = "find_wyckoff_accumulation" -> find_wyckoff_accumulation(df, i)
    [] d = "find_orderblocks" -> find_orderblocks(df, i)
    [] d = "analyze_wyckoff" -> analyze_wyckoff(df, i)
    [] d = "analyze_orderblocks" -> analyze_orderblocks(df, i)

\* The last 1-based row of the window the detector d evaluates at position i:
\* rows i-window+1..i of a trailing slice, rows i+1..i+window of the
\* PatternAnalyzer Wyckoff slice, the candle i+1 of its orderblock scan.
WindowEnd(d, i) ==
  CASE d = "analyze_wyckoff" -> i + PaWyckoffWindow
    [] d = "analyze_orderblocks" -> i + 1
    [] OTHER -> i

\* ------------------------------------- two series that agree on early bars
Prices == 1..2

BaseSeries ==
  { [i \in 1..NBars |-> Bar(i, 1, c[i], 1)] : c \in [1..NBars -> Prices] }

AllBars(t) == { Bar(t, o, c, v) : o \in Prices, c \in Prices, v \in {1, 2} }

InitLookahead ==
  /\ historical_data \in BaseSeries
  /\ options_chain_data = BtOptions
  /\ start_date = 1
  /\ end_date = NBars
  /\ initial_capital = 100000
  /\ position_size_pct = 2
  /\ strategy_generator = "StrategyGenerator"
  /\ mock_mode = TRUE
  /\ max_position_size = 1
  /\ InitRun
  /\ pc = "idle"
  /\ idx = 0
  /\ awaiting = {}
  /\ last = NoLast
  /\ strategy = NoStrategy
  /\ verdict = "unset"
  /\ NoSide

run_state == <<pc, idx, awaiting, trades, equity, current_capital, last>>

\* One bar of the second series is given other values.
AlterBar(j, bar) ==
  /\ observed = NoObservation
  /\ altered_data = historical_data
  /\ altered_options = options_chain_data
  /\ bar # historical_data[j]
  /\ altered_data' = [altered_data EXCEPT ![j] = bar]
  /\ UNCHANGED <<args, run_state, strategy, verdict, altered_options, observed,
                 inputs, run, first, ext>>

\* The options context of one bar of the second series is given other values.
AlterOptions(j) ==
  /\ observed = NoObservation
  /\ altered_data = historical_data
  /\ altered_options = options_chain_data
  /\ altered_options' =
       [altered_options EXCEPT ![j] = [iv_rank |-> 80, put_call_ratio |-> 2]]
  /\ UNCHANGED <<args, run_state, strategy, verdict, altered_data, observed,
                 inputs, run, first, ext>>

\* The snapshot of row i and the trade the mock strategy makes of it.
Decision(df, options, i) ==
  LET market_data == get_market_snapshot(prepare_data(df, options, i))
  IN [market_data |-> market_data,
      trade |-> execute_trade(generate_strategy(LLMError), market_data,
                              initial_capital, position_size_pct, "win")]

\* Both series are prepared and row i of each is turned into its snapshot.
TakeSnapshot(i) ==
  /\ observed' = [kind |-> "snapshot", detector |-> "", at |-> i,
                  a |-> Decision(historical_data, options_chain_data, i),
                  b |-> Decision(altered_data, altered_options, i)]
  /\ UNCHANGED <<args, run_state, strategy, verdict, altered_data,
                 altered_options, inputs, run, first, ext>>

\* The detector d evaluates position i of both series.
RunDetector(d, i) ==
  /\ observed' = [kind |-> "pattern", detector |-> d, at |-> i,
                  a |-> Detect(d, historical_data, i),
                  b |-> Detect(d, altered_data, i)]
  /\ UNCHANGED <<args, run_state, strategy, verdict, altered_data,
                 altered_options, inputs, run, first, ext>>

NextLookahead ==
  \/ \E j \in 1..NBars : \E bar \in AllBars(j) : AlterBar(j, bar)
  \/ \E j \in 1..NBars : AlterOptions(j)
  \/ \E i \in 1..NBars : TakeSnapshot(i)
  \/ \E d \in Detectors : \E i \in 0..(NBars - 1) : RunDetector(d, i)

SpecLookahead == InitLookahead /\ [][NextLookahead]_vars

\* The two series and their options contexts agree on rows 1..n.
AgreeThrough(n) ==
  \A j \in 1..Min(n, NBars) :
    /\ altered_data[j] = historical_data[j]
    /\ altered_options[j] = options_chain_data[j]

C7_DetectorsNoLookahead ==
  (observed.kind = "pattern" /\ AgreeThrough(WindowEnd(observed.detector, observed.at)))
    => observed.a = observed.b

\* ------------------------------------------- the same run a second time
\* What the collaborators answer on a bar, the same in both runs.
RerunInputs ==
  { [llm |-> LLMError, exec |-> "win"],
    [llm |-> [kind |-> "proposal", proposal |-> ValidBuy], exec |-> "loss"],
    [llm |-> [kind |-> "proposal", proposal |-> ValidSellUntyped], exec |-> "win"],
    [llm |-> [kind |-> "proposal", proposal |-> BadOrderSell], exec |-> "error"] }

InitRerun ==
  /\ historical_data \in BtSeries
  /\ options_chain_data = BtOptions
  /\ start_date = 1
  /\ end_date = NBars
  /\ initial_capital = 100000
  /\ position_size_pct = 2
  /\ strategy_generator \in {"StrategyGenerator", "NoProposal"}
  /\ mock_mode \in BOOLEAN
  /\ max_position_size = 1
  /\ InitRun
  /\ pc = "loop"
  /\ idx = 0
  /\ awaiting = {}
  /\ last = NoLast
  /\ strategy = NoStrategy
  /\ verdict = "unset"
  /\ altered_data = historical_data
  /\ altered_options = options_chain_data
  /\ observed = NoObservation
  /\ inputs \in [1..NBars -> RerunInputs]
  /\ run = 1
  /\ first = NoResult
  /\ NoExt

\* The awaited call of bar b returns what the collaborators answer on b.
ReplayReturn(b) == OracleReturn(b, inputs[b].llm, inputs[b].exec)

\* run_backtest lines 41-43 on entry of a call.
StartRunCarried ==
  /\ trades' = <<>>
  /\ equity' = <<current_capital>>
  /\ current_capital' = current_capital

StartRun ==
  /\ trades' = <<>>
  /\ equity' = <<initial_capital>>
  /\ current_capital' = initial_capital

\* The finished run is kept and run_backtest is called again with the same
\* arguments.
Rerun ==
  /\ pc = "done"
  /\ run = 1
  /\ first' = [trades |-> trades, equity |-> equity]
  /\ run' = 2
  /\ StartRun
  /\ pc' = "loop"
  /\ idx' = 0
  /\ awaiting' = {}
  /\ last' = NoLast
  /\ UNCHANGED <<args, strategy, verdict, altered_data, altered_options,
                 observed, inputs, ext>>

NextRerun ==
  \/ Iterate
  \/ \E b \in 1..NBars : ReplayReturn(b)
  \/ Finish
  \/ Rerun

SpecRerun == InitRerun /\ [][NextRerun]_vars

PriceVals == {Num(p) : p \in 1..MaxPrice} \cup {NoneVal}
SizeVals == {Num(1), Num(2), Num(3), NoneVal}
FieldSets ==
  {AllFields, RequiredFields} \cup {AllFields \ {f} : f \in RequiredFields}

\* The dicts validate_strategy is called with.
TestStrategies ==
  { [fields |-> fs, action |-> a, strategy_type |-> "llm_strategy",
     entry_price |-> e, stop_loss |-> sl, take_profit |-> tp,
     position_size |-> sz] :
      fs \in FieldSets, a \in {"BUY", "SELL", "HOLD"},
      e \in PriceVals, sl \in PriceVals, tp \in PriceVals, sz \in SizeVals }

\* A backtester that is not running.
IdleBacktest ==
  /\ historical_data = [i \in 1..NBars |-> Bar(i, i, i + 1, 1)]
  /\ options_chain_data = BtOptions
  /\ start_date = 1
  /\ end_date = NBars
  /\ initial_capital = 100000
  /\ position_size_pct = 2
  /\ strategy_generator = "StrategyGenerator"
  /\ mock_mode = FALSE
  /\ InitRun
  /\ pc = "idle"
  /\ idx = 0
  /\ awaiting = {}
  /\ last = NoLast

InitValidate ==
  /\ IdleBacktest
  /\ NoSide
  /\ max_position_size \in {1, 2}
  /\ strategy \in TestStrategies
  /\ verdict = "unset"

\* validate_strategy(strategy) is awaited: what the caller sees.
Validate ==
  /\ verdict = "unset"
  /\ verdict' = validate_strategy(strategy)
  /\ UNCHANGED <<args, pc, idx, awaiting, trades, equity, current_capital,
                 last, strategy, altered_data, altered_options, observed,
                 inputs, run, first, ext>>

NextValidate == Validate

SpecValidate == InitValidate /\ [][NextValidate]_vars

IsNum(x) == x.k = "num"

\* The proposal the claim describes: every required field, the price order
\* of its direction, a position size within the maximum.
Conforms(s) ==
  /\ RequiredFields \subseteq s.fields
  /\ s.action = "BUY" =>
       /\ IsNum(s.stop_loss) /\ IsNum(s.entry_price) /\ IsNum(s.take_profit)
       /\ s.stop_loss.v < s.entry_price.v
       /\ s.entry_price.v < s.take_profit.v
  /\ s.action = "SELL" =>
       /\ IsNum(s.stop_loss) /\ IsNum(s.entry_price) /\ IsNum(s.take_profit)
       /\ s.stop_loss.v > s.entry_price.v
       /\ s.entry_price.v > s.take_profit.v
  /\ IsNum(s.position_size)
  /\ s.position_size.v <= max_position_size

\* C5: validate_strategy answers true or false, never an exception, and
\* true exactly for a proposal with every required field, stop_loss <
\* entry_price < take_profit when it is a BUY, stop_loss > entry_price >
\* take_profit when it is a SELL, and a position size within the maximum.
C5_ValidateStrategy ==
  verdict # "unset"
    => /\ verdict \in {"True", "False"}
       /\ verdict = "True" <=> Conforms(strategy)

C5_Witness ==
  /\ verdict = "True"
  /\ strategy.action = "SELL"
  /\ strategy.fields = RequiredFields

\* ---------------------------------------------------------- market regimes
\* Number of bars of a segmented series.
MaskLen == 5
\* Largest rolling volatility of a bar.
MaxVol == 2

\* The program outside the segmentation, the scan and the validation.
IdleProgram ==
  /\ IdleBacktest
  /\ NoCompare
  /\ NoLate
  /\ max_position_size = 2
  /\ strategy = NoStrategy
  /\ verdict = "unset"

idle_vars ==
  <<args, run_state, strategy, verdict, altered_data, altered_options,
    observed, inputs, run, first, late>>

\* rolling_vol = returns.rolling(window=30).std(): NaN on the warm-up bars,
\* a volatility on the bars after them.
RollingVols ==
  { [i \in 1..MaskLen |-> IF i <= w THEN NaN ELSE Ratio(f[i], 1)] :
      w \in 0..MaskLen, f \in [1..MaskLen -> 0..MaxVol] }

IsNaN(x) == x.k = "nan"

\* Series.mean() and Series.std() skip NaN: the values they are taken over.
CountVol(vol) == Cardinality({i \in 1..Len(vol) : ~IsNaN(vol[i])})

RECURSIVE SumVol(_, _)
SumVol(vol, n) ==
  IF n = 0 THEN 0
  ELSE (IF IsNaN(vol[n]) THEN 0 ELSE vol[n].num) + SumVol(vol, n - 1)

\* count * (vol[i] - mean), an integer.
Dev(vol, i) == CountVol(vol) * vol[i].num - SumVol(vol, Len(vol))

RECURSIVE SumSqDev(_, _)
SumSqDev(vol, n) ==
  IF n = 0 THEN 0
  ELSE (IF IsNaN(vol[n]) THEN 0 ELSE Dev(vol, n) * Dev(vol, n))
       + SumSqDev(vol, n - 1)

\* x - mean > std for a deviation d = count * (x - mean): std is the sample
\* deviation sqrt(sum (x_j - mean)^2 / (count - 1)), NaN for fewer than two
\* values, and a comparison with NaN is False.
StdAboveOrEqual(d, vol) ==
  /\ CountVol(vol) >= 2
  /\ d >= 0
  /\ d * d * (CountVol(vol) - 1) >= SumSqDev(vol, Len(vol))

StdAbove(d, vol) ==
  /\ CountVol(vol) >= 2
  /\ d > 0
  /\ d * d * (CountVol(vol) - 1) > SumSqDev(vol, Len(vol))

\* rolling_vol > rolling_vol.mean() + rolling_vol.std()
high_vol_mask(vol) ==
  [i \in 1..Len(vol) |-> ~IsNaN(vol[i]) /\ StdAbove(Dev(vol, i), vol)]

\* rolling_vol < rolling_vol.mean() - rolling_vol.std()
low_vol_mask(vol) ==
  [i \in 1..Len(vol) |-> ~IsNaN(vol[i]) /\ StdAbove(-Dev(vol, i), vol)]

\* current_start = None; the index labels of a series are 1..Len.
NoStart == 0

\* `if val and current_start is None`
OpensRegimeEveryBar(val, cur) == val

OpensRegime(val, cur) == val /\ cur = NoStart

\* `elif not val and current_start is not None`
ClosesRegime(val, cur) == ~val /\ cur # NoStart

\* current_start after the iteration at label i.
NextStartKept(val, cur, i) ==
  IF OpensRegime(val, cur) THEN i ELSE cur

NextStart(val, cur, i) ==
  IF OpensRegime(val, cur) THEN i
  ELSE IF ClosesRegime(val, cur) THEN NoStart
  ELSE cur

\* _get_regime_periods(mask) is called on its own, or _identify_market_regimes
\* computes rolling_vol and calls it on the high-volatility mask.
InitRegime ==
  /\ IdleProgram
  /\ NoScan
  /\ NoValidation
  /\ \/ /\ rolling_vol = <<>>
        /\ mask \in [1..MaskLen -> BOOLEAN]
        /\ phase = "mask"
     \/ /\ rolling_vol \in RollingVols
        /\ mask = high_vol_mask(rolling_vol)
        /\ phase = "high_volatility"
  /\ pos = 0
  /\ current_start = NoStart
  /\ periods = <<>>
  /\ regimes = [high_volatility |-> <<>>, low_volatility |-> <<>>]

\* One iteration of `for i, val in mask.items()`.
RegimeStep ==
  /\ phase \in {"mask", "high_volatility", "low_volatility"}
  /\ pos < Len(mask)
  /\ LET i == pos + 1
         val == mask[i]
     IN /\ periods' =
             IF ~OpensRegime(val, current_start)
                /\ ClosesRegime(val, current_start)
               THEN Append(periods, [start |-> current_start, end |-> i])
               ELSE periods
        /\ current_start' = NextStart(val, current_start, i)
        /\ pos' = i
  /\ UNCHANGED <<rolling_vol, mask, regimes, phase, idle_vars, scan_vars, ml_vars>>

\* `return periods`: to the caller of _get_regime_periods, or to
\* _identify_market_regimes, which stores the periods under their label and
\* goes on with the low-volatility mask, or returns regimes.
RegimeReturn ==
  /\ phase \in {"mask", "high_volatility", "low_volatility"}
  /\ pos = Len(mask)
  /\ \/ /\ phase = "mask"
        /\ phase' = "done"
        /\ UNCHANGED <<mask, pos, current_start, periods, regimes>>
     \/ /\ phase = "high_volatility"
        /\ regimes' = [regimes EXCEPT !.high_volatility = periods]
        /\ mask' = low_vol_mask(rolling_vol)
        /\ pos' = 0
        /\ current_start' = NoStart
        /\ periods' = <<>>
        /\ phase' = "low_volatility"
     \/ /\ phase = "low_volatility"
        /\ regimes' = [regimes EXCEPT !.low_volatility = periods]
        /\ phase' = "done"
        /\ UNCHANGED <<mask, pos, current_start, periods>>
  /\ UNCHANGED <<rolling_vol, idle_vars, scan_vars, ml_vars>>

NextRegime == RegimeStep \/ RegimeReturn

SpecRegime == InitRegime /\ [][NextRegime]_vars

\* The loop of the current call is over.
LoopOver == phase # "idle" /\ pos = Len(mask)

\* Periods in increasing start order, none empty, none reaching into the next.
Disjoint(ps) ==
  \A k \in 1..Len(ps) :
    /\ ps[k].start < ps[k].end
    /\ k < Len(ps) =>
         /\ ps[k].start < ps[k + 1].start
         /\ ps[k].end <= ps[k + 1].start

\* C13: for every mask, the periods _get_regime_periods has collected, and
\* the periods stored under a label, come in increasing start order, each
\* with start before end and each ending at or before the start of the next.
C13_PeriodsDisjoint ==
  /\ Disjoint(periods)
  /\ Disjoint(regimes.high_volatility)
  /\ Disjoint(regimes.low_volatility)

C13_Witness ==
  /\ phase = "done"
  /\ Len(periods) >= 2

\* The periods that hold bar i, a period holding start up to end - 1.
Holding(i) == {k \in 1..Len(periods) : periods[k].start <= i /\ i < periods[k].end}

\* C14: when the loop is over, each period starts at a true bar that is the
\* first of the series or follows a false bar, ends at the first false bar
\* after it, which is outside the period; a true bar with a false bar
\* somewhere after it is in exactly one period and a false bar is in none.
C14_MaximalRuns ==
  LoopOver =>
    /\ \A k \in 1..Len(periods) :
         LET p == periods[k]
         IN /\ p.start \in 1..Len(mask) /\ p.end \in 1..Len(mask)
            /\ mask[p.start]
            /\ p.start = 1 \/ ~mask[p.start - 1]
            /\ p.start < p.end
            /\ ~mask[p.end]
            /\ \A j \in p.start..(p.end - 1) : mask[j]
    /\ \A i \in 1..Len(mask) :
         /\ (mask[i] /\ \E j \in (i + 1)..Len(mask) : ~mask[j])
              => Cardinality(Holding(i)) = 1
         /\ ~mask[i] => Holding(i) = {}

C14_Witness ==
  /\ LoopOver
  /\ phase = "mask"
  /\ \E k \in 1..Len(periods) :
       /\ periods[k].start > 1
       /\ periods[k].end >= periods[k].start + 2
  /\ mask[Len(mask)]

\* The first bar of the run of true bars that bar i is in.
RunStart(i) ==
  CHOOSE s \in 1..i :
    /\ \A j \in s..i : mask[j]
    /\ s = 1 \/ ~mask[s - 1]

\* C15: a mask that is true on the last bar has the run of that bar among
\* the returned periods, from the first bar of the run to the final
\* timestamp.
C15_OpenRegimeClosed ==
  (phase = "done" /\ mask[Len(mask)])
    => \E k \in 1..Len(periods) :
         /\ periods[k].start = RunStart(Len(mask))
         /\ periods[k].end = Len(mask)

\* A rolling volatility that is 0 wherever it is defined.
FlatVol ==
  /\ rolling_vol # <<>>
  /\ \A i \in 1..Len(rolling_vol) :
       IsNaN(rolling_vol[i]) \/ rolling_vol[i].num = 0

\* C16: on a rolling volatility that is 0 where defined and NaN on the
\* warm-up bars, both comparisons are false on every bar and
\* _identify_market_regimes returns no high_volatility and no
\* low_volatility period.
C16_FlatNoRegimes ==
  (phase = "done" /\ FlatVol)
    => /\ regimes.high_volatility = <<>>
       /\ regimes.low_volatility = <<>>
       /\ \A i \in 1..Len(rolling_vol) :
            /\ ~high_vol_mask(rolling_vol)[i]
            /\ ~low_vol_mask(rolling_vol)[i]

C16_Witness ==
  /\ phase = "done"
  /\ FlatVol
  /\ IsNaN(rolling_vol[1])
  /\ CountVol(rolling_vol) >= 2

\* ------------------------------------------------------ the double-top scan
\* `window = 20  # Look back period` of _find_double_tops_bottoms.
DoubleTopLookBack == 20

\* The series of the scan: 300 rows labelled 0..299, flat at `base`, with two
\* bars whose high is `peak`, the first at row 50.
Scenario == [rows |-> 300, first_peak |-> 50, peak |-> 120, base |-> 100]

\* Row r of the frame is bars[r + 1]; the rows between the peaks are at the
\* level `trough`.
ScenarioFrame(second_peak, trough) ==
  [n \in 1..Scenario.rows |->
     LET r == n - 1
     IN IF r = Scenario.first_peak \/ r = second_peak
          THEN Bar(r, Scenario.base, Scenario.peak, 1)
        ELSE IF r > Scenario.first_peak /\ r < second_peak
          THEN Bar(r, trough, trough, 1)
        ELSE Bar(r, Scenario.base, Scenario.base, 1)]

\* Second peak at row 90 or, inside one look-back window, at row 60; the
\* trough at least 5% under the peak.
ScenarioFrames ==
  {ScenarioFrame(p, t) : p \in {60, 90}, t \in {100, 110, 114}}

RECURSIVE Ascending(_)
Ascending(S) ==
  IF S = {} THEN <<>>
  ELSE LET x == CHOOSE y \in S : \A z \in S : y <= z
       IN <<x>> \o Ascending(S \ {x})

\* The rows of a series of values that are above both their neighbours.
PeakRows(values) ==
  Ascending({j \in 2..(Len(values) - 1) :
               values[j] > values[j - 1] /\ values[j] > values[j + 1]})

\* _find_peaks(series): the values at the local maxima, in row order.
find_peaks(values) ==
  [k \in 1..Len(PeakRows(values)) |-> values[PeakRows(values)[k]]]

Highs(slice_df) == [j \in 1..Len(slice_df) |-> slice_df[j].high]
NegLows(slice_df) == [j \in 1..Len(slice_df) |-> -slice_df[j].low]

\* _validate_double_top / _validate_double_bottom: the first two extremes
\* are level with each other.
validate_double_top(slice_df, peaks) == peaks[1] = peaks[2]
validate_double_bottom(slice_df, troughs) == troughs[1] = troughs[2]

RECURSIVE MinOver(_, _, _)
MinOver(values, lo, hi) ==
  IF lo >= hi THEN values[lo]
  ELSE Min(values[hi], MinOver(values, lo, hi - 1))

\* _calculate_price_target: the neckline between the first two extremes,
\* projected by the distance from the extreme to the neckline.
calculate_price_target(slice_df, points, pattern) ==
  IF pattern = "double_top"
    THEN LET rows == PeakRows(Highs(slice_df))
             lowest == MinOver([j \in 1..Len(slice_df) |-> slice_df[j].low],
                               rows[1], rows[2])
         IN 2 * lowest - points[1]
    ELSE LET rows == PeakRows(NegLows(slice_df))
             highest == -MinOver([j \in 1..Len(slice_df) |-> -slice_df[j].high],
                                 rows[1], rows[2])
         IN 2 * highest + points[1]

\* [{"price": p, "time": slice_df.index[i]} for i, p in enumerate(points)]:
\* point k carries the label of row k of the slice.
formation_points(slice_df, points) ==
  [k \in 1..Len(points) |-> [price |-> points[k], time |-> slice_df[k].timestamp]]

\* ChartPattern(...); confidence, stop_loss and volume_confirms are left out.
ChartPattern(type, slice_df, points) ==
  [pattern_type |-> type,
   price_target |-> calculate_price_target(slice_df, points, type),
   formation_points |-> formation_points(slice_df, points)]

\* The patterns of one iteration i of the scan loop.
double_tops_bottoms_at(df, i) ==
  LET slice_df == Iloc(df, i - DoubleTopLookBack, i)
      peaks == find_peaks(Highs(slice_df))
      troughs == find_peaks(NegLows(slice_df))
      tops ==
        IF Len(peaks) >= 2 /\ validate_double_top(slice_df, peaks)
          THEN <<ChartPattern("double_top", slice_df, peaks)>>
          ELSE <<>>
      bottoms ==
        IF Len(troughs) >= 2 /\ validate_double_bottom(slice_df, troughs)
          THEN <<ChartPattern("double_bottom", slice_df, troughs)>>
          ELSE <<>>
  IN tops \o bottoms

InitScan ==
  /\ IdleProgram
  /\ NoRegime
  /\ NoValidation
  /\ bars \in ScenarioFrames
  /\ scan = DoubleTopLookBack
  /\ patterns = <<>>

\* One iteration of `for i in range(window, len(df))`.
ScanStep ==
  /\ bars # <<>>
  /\ scan < Len(bars)
  /\ patterns' = patterns \o double_tops_bottoms_at(bars, scan)
  /\ scan' = scan + 1
  /\ UNCHANGED <<bars, idle_vars, regime_vars, ml_vars>>

NextScan == ScanStep

SpecScan == InitScan /\ [][NextScan]_vars

\* The loop is over and `patterns` is returned.
ScanOver == bars # <<>> /\ scan = Len(bars)

\* C17: on the 300-bar series with equal peaks at rows 50 and 90 and a
\* trough at least 5% lower between them, the returned patterns hold a
\* double_top whose formation_points are the peak at 50 and the peak at 90,
\* each with the timestamp of its bar, and whose price_target is under the
\* trough.
C17_DoubleTopScenario ==
  (ScanOver /\ bars[91].high = Scenario.peak)
    => \E k \in 1..Len(patterns) :
         /\ patterns[k].pattern_type = "double_top"
         /\ patterns[k].formation_points =
              << [price |-> Scenario.peak, time |-> 50],
                 [price |-> Scenario.peak, time |-> 90] >>
         /\ patterns[k].price_target < bars[71].low

\* ------------------------------------------------------ pattern validation
\* Most patterns a detector hands to the validator.
MaxPatterns == 2

\* The keys of `patterns` in analyze_patterns, in dict order.
TypeOrder == <<"wyckoff", "orderblocks", "liquidity_levels", "smart_money_concepts">>

\* Confidences and scores are counted in tenths.
\* _analyze_wyckoff: patterns with the detector's own confidence.
WyckoffPattern(k, c) ==
  [type |-> "wyckoff_accumulation", start_idx |-> k - 1,
   end_idx |-> k - 1 + PaWyckoffWindow, confidence |-> c,
   phase |-> "accumulation"]

WyckoffLists ==
  UNION { { [k \in 1..n |-> WyckoffPattern(k, c[k])] : c \in [1..n -> {5, 9}] } :
          n \in 0..MaxPatterns }

\* _analyze_orderblocks, _analyze_liquidity_levels, _analyze_smc.
OrderblockLists ==
  { <<>>,
    << [type |-> "orderblock", position |-> "bullish", price_level |-> 1,
        volume_ratio |-> Ratio(1, 1), strength |-> 5] >> }

LiquidityLists ==
  { << [type |-> "liquidity_level", price |-> 1, side |-> "high",
        strength |-> 5, stop_density |-> 1] >> }

SmcLists == { << [type |-> "stop_hunt", price |-> 1] >> }

\* What rf_model.predict_proba(features)[:, 1] and _validate_with_lstm give
\* for one pattern: a mean under, at and over 0.7.
ClassifierScores ==
  { [rf |-> 6, lstm |-> 6], [rf |-> 6, lstm |-> 8], [rf |-> 7, lstm |-> 8] }

\* (rf + lstm) / 2, in twentieths.
ml_confidence_structural(pattern, rf, lstm) ==
  IF "confidence" \in DOMAIN pattern
    THEN Ratio(pattern.confidence + rf, 20)
    ELSE Ratio(rf + lstm, 20)

ml_confidence(pattern, rf, lstm) == Ratio(rf + lstm, 20)

\* `if (rf + lstm) / 2 > 0.7`
KeepsFromThreshold(rf, lstm) == rf + lstm >= 14

Keeps(rf, lstm) == rf + lstm > 14

\* The list comprehension of lines 118-122 over zip(pattern_list, rf, lstm).
RECURSIVE Combine(_, _, _)
Combine(pattern_list, s, n) ==
  IF n = 0 THEN <<>>
  ELSE Combine(pattern_list, s, n - 1) \o
       (IF Keeps(s[n].rf, s[n].lstm)
          THEN << pattern_list[n] @@
                  [ml_confidence |->
                     ml_confidence(pattern_list[n], s[n].rf, s[n].lstm)] >>
          ELSE <<>>)

\* What the models gave for a pattern list: the scores, or an exception.
Scored(s) == [outcome |-> "scores", of |-> s]
Failed == [outcome |-> "raised", of |-> <<>>]

\* analyze_patterns has run the detectors and calls _validate_patterns_with_ml.
InitML ==
  /\ IdleProgram
  /\ NoRegime
  /\ NoScan
  /\ detected \in
       { <<w, o, l, m>> : w \in WyckoffLists, o \in OrderblockLists,
                          l \in LiquidityLists, m \in SmcLists }
  /\ scores = <<>>
  /\ validated = <<>>
  /\ vpc = "validating"

\* One iteration of `for pattern_type, pattern_list in patterns.items()`
\* in which both models answer.
ValidateType ==
  /\ vpc = "validating"
  /\ Len(scores) < Len(detected)
  /\ LET pattern_list == detected[Len(scores) + 1]
     IN \E s \in [1..Len(pattern_list) -> ClassifierScores] :
          /\ scores' = Append(scores, Scored(s))
          /\ validated' =
               Append(validated, Combine(pattern_list, s, Len(pattern_list)))
  /\ UNCHANGED <<detected, vpc, idle_vars, regime_vars, scan_vars>>

\* predict_proba or _validate_with_lstm raises: nothing in
\* _validate_patterns_with_ml or analyze_patterns catches it, and
\* validated_patterns is lost with the frame.
ClassifierRaises ==
  /\ vpc = "validating"
  /\ Len(scores) < Len(detected)
  /\ scores' = Append(scores, Failed)
  /\ validated' = <<>>
  /\ vpc' = "raised"
  /\ UNCHANGED <<detected, idle_vars, regime_vars, scan_vars>>

\* `return validated_patterns`
ValidateReturn ==
  /\ vpc = "validating"
  /\ Len(scores) = Len(detected)
  /\ vpc' = "done"
  /\ UNCHANGED <<detected, scores, validated, idle_vars, regime_vars, scan_vars>>

NextML == ValidateType \/ ClassifierRaises \/ ValidateReturn

SpecML == InitML /\ [][NextML]_vars

\* rf + lstm of pattern k of type t: twice their mean, in tenths.
TwiceMean(t, k) == scores[t].of[k].rf + scores[t].of[k].lstm

\* The rows of detected[t] whose mean score is over 0.7, in detection order.
RowsOver(t) ==
  Ascending({k \in 1..Len(detected[t]) : TwiceMean(t, k) > 14})

\* A blended confidence that is the mean of the structural confidence c and
\* of a classifier confidence: the forest's, the LSTM's, or their mean.
MeanWithStructural(q, c, rf, lstm) ==
  /\ q.ml_confidence.den = 20
  /\ \/ q.ml_confidence.num = c + rf
     \/ q.ml_confidence.num = c + lstm
     \/ 2 * q.ml_confidence.num = 2 * c + rf + lstm

C19_ThresholdFilter ==
  vpc = "done" =>
    \A t \in 1..Len(detected) :
      /\ Len(validated[t]) = Len(RowsOver(t))
      /\ \A j \in 1..Len(RowsOver(t)) :
           LET p == detected[t][RowsOver(t)[j]]
               q == validated[t][j]
           IN /\ DOMAIN q = DOMAIN p \cup {"ml_confidence"}
              /\ \A f \in DOMAIN p : q[f] = p[f]
              /\ 10 * q.ml_confidence.num > 7 * q.ml_confidence.den

C19_Witness ==
  /\ vpc = "done"
  /\ Len(detected[1]) = 2
  /\ TwiceMean(1, 1) = 14
  /\ TwiceMean(1, 2) > 14
  /\ Len(validated[1]) = 1
  /\ validated[1][1].start_idx = detected[1][2].start_idx

\* A classifier call of the validation has failed.
ClassifierFailed == \E t \in 1..Len(scores) : scores[t] = Failed

\* C20: when the classifier fails, validation does not abort, and what it
\* returns for the failed type is every detected pattern, with its
\* structural confidence alone and flagged heuristic-only.
C20_ClassifierFallback ==
  ClassifierFailed =>
    /\ vpc # "raised"
    /\ vpc = "done" =>
         \A t \in 1..Len(scores) :
           scores[t] = Failed =>
             validated[t] =
               [k \in 1..Len(detected[t]) |->
                  detected[t][k] @@ [heuristic_only |-> TRUE]]

\* -------------------------------------------------------- options analysis
\* The program outside the components of this part.
IdleRest ==
  /\ IdleBacktest
  /\ NoCompare
  /\ NoRegime
  /\ NoScan
  /\ NoValidation
  /\ max_position_size = 2
  /\ strategy = NoStrategy
  /\ verdict = "unset"

rest_vars ==
  <<args, run_state, strategy, verdict, altered_data, altered_options,
    observed, inputs, run, first, regime_vars, scan_vars, ml_vars>>

\* Highest strike of an options chain.
MaxStrike == 3

\* Values a helper can hand back besides a number: float('inf'), an
\* exception, and the sentinels of the contract; NotCalled for a helper that
\* analyze_options_market did not get to.
Inf == [k |-> "inf", num |-> 1, den |-> 0]
Raised == [k |-> "raise", num |-> 0, den |-> 1]
Undefined == [k |-> "undefined", num |-> 0, den |-> 1]
Null == [k |-> "null", num |-> 0, den |-> 1]
NotCalled == [k |-> "not_called", num |-> 0, den |-> 1]

\* data['strikes']: the listed strikes in any order.
StrikeLists ==
  UNION { { s \in [1..n -> 1..MaxStrike] :
              \A i, j \in 1..n : i # j => s[i] # s[j] } : n \in 2..MaxStrike }

\* market_data as analyze_options_market reads it; `numeric` tells whether
\* the numbers are Python floats or numpy floats.
MarketDatas ==
  [current_iv : 1..2, iv_52week_high : 1..2, iv_52week_low : 1..2,
   numeric : {"float", "numpy"},
   put_volumes : {[i \in 1..MaxStrike |-> 1]},
   call_volumes : {[i \in 1..MaxStrike |-> 0], [i \in 1..MaxStrike |-> 1]},
   strikes : StrikeLists,
   open_interest : [1..MaxStrike -> 0..1]]

RECURSIVE SumValues(_, _)
SumValues(d, n) == IF n = 0 THEN 0 ELSE d[n] + SumValues(d, n - 1)

\* _calculate_iv_rank: (current_iv - iv_low) / (iv_high - iv_low) * 100.
\* A zero divisor raises ZeroDivisionError on Python floats and gives nan
\* (0/0) or inf on numpy floats.
calculate_iv_rank(data) ==
  LET num == data.current_iv - data.iv_52week_low
      den == data.iv_52week_high - data.iv_52week_low
  IN IF den # 0 THEN Ratio(num * 100, den)
     ELSE IF data.numeric = "float" THEN Raised
     ELSE IF num = 0 THEN NaN
     ELSE Inf

\* _calculate_put_call_ratio
calculate_put_call_ratio(data) ==
  LET put_volume == SumValues(data.put_volumes, Len(data.put_volumes))
      call_volume == SumValues(data.call_volumes, Len(data.call_volumes))
  IN IF call_volume > 0 THEN Ratio(put_volume, call_volume) ELSE Inf

\* _calculate_options_value_at_strike: what the sellers owe with the
\* underlying at `strike`, calls below it and puts above it in the money.
RECURSIVE calculate_options_value_at_strike(_, _, _)
calculate_options_value_at_strike(data, strike, n) ==
  IF n = 0 THEN 0
  ELSE data.open_interest[n] * Abs(strike - n)
       + calculate_options_value_at_strike(data, strike, n - 1)

\* min(total_value.items(), key=lambda x: x[1])[0]: the first strike in
\* listing order whose value no other strike undercuts.
calculate_max_pain(data) ==
  LET total_value ==
        [i \in 1..Len(data.strikes) |->
           calculate_options_value_at_strike(data, data.strikes[i], MaxStrike)]
      first_min ==
        CHOOSE i \in 1..Len(data.strikes) :
          /\ \A j \in 1..Len(data.strikes) : total_value[i] <= total_value[j]
          /\ \A j \in 1..(i - 1) : total_value[j] > total_value[i]
  IN Ratio(data.strikes[first_min], 1)

\* analyze_options_market: the helpers in the order of lines 60-68; the
\* first exception is logged and raised again.
analyze_options_market(data) ==
  LET iv_rank == calculate_iv_rank(data)
  IN IF iv_rank = Raised
       THEN [outcome |-> "raised", iv_rank |-> iv_rank,
             put_call_ratio |-> NotCalled, max_pain |-> NotCalled]
       ELSE [outcome |-> "returned", iv_rank |-> iv_rank,
             put_call_ratio |-> calculate_put_call_ratio(data),
             max_pain |-> calculate_max_pain(data)]

InitOptions ==
  /\ IdleRest
  /\ NoMetrics
  /\ NoGenerate
  /\ NoCharts
  /\ option_data \in MarketDatas
  /\ analysis = <<>>
  /\ enriched = <<>>

\* _enrich_market_data awaits analyze_options_market.
AnalyzeOptions ==
  /\ option_data # <<>>
  /\ analysis = <<>>
  /\ analysis' = analyze_options_market(option_data)
  /\ UNCHANGED <<option_data, enriched, rest_vars, metrics_vars, gen_vars,
                 chart_vars>>

\* _enrich_market_data returns market_data with the options analysis, or as
\* it came when the analysis raised.
EnrichMarketData ==
  /\ analysis # <<>>
  /\ enriched = <<>>
  /\ enriched' =
       [market_data |-> option_data,
        has_options_analysis |-> analysis.outcome = "returned",
        iv_rank |-> IF analysis.outcome = "returned"
                      THEN analysis.iv_rank ELSE NotCalled,
        put_call_ratio |-> analysis.put_call_ratio,
        max_pain |-> analysis.max_pain]
  /\ UNCHANGED <<option_data, analysis, rest_vars, metrics_vars, gen_vars,
                 chart_vars>>

NextOptions == AnalyzeOptions \/ EnrichMarketData

SpecOptions == InitOptions /\ [][NextOptions]_vars

CallVolume == SumValues(option_data.call_volumes, Len(option_data.call_volumes))

\* C21: with a total call volume of 0 the put/call ratio that was computed
\* is the "undefined" sentinel, in the analysis and in the enriched market
\* data: no exception, no infinity, no number.
C21_PutCallUndefined ==
  (analysis # <<>> /\ CallVolume = 0 /\ analysis.put_call_ratio # NotCalled)
    => /\ analysis.put_call_ratio = Undefined
       /\ enriched # <<>> => enriched.put_call_ratio = Undefined

\* C22: the IV rank is null, and no exception, when the 52-week high equals
\* the 52-week low, and (current_iv - low) / (high - low) * 100 otherwise.
C22_IvRank ==
  analysis # <<>>
    => IF option_data.iv_52week_high = option_data.iv_52week_low
         THEN analysis.iv_rank = Null
         ELSE analysis.iv_rank =
                Ratio((option_data.current_iv - option_data.iv_52week_low) * 100,
                      option_data.iv_52week_high - option_data.iv_52week_low)

\* The liability at a listed strike.
Liability(strike) ==
  calculate_options_value_at_strike(option_data, strike, MaxStrike)

Listed == {option_data.strikes[i] : i \in 1..Len(option_data.strikes)}

\* C23: max pain is a listed strike of minimal liability, and the lowest of
\* the strikes of minimal liability, in whatever order they are listed.
C23_MaxPainLowest ==
  (analysis # <<>> /\ analysis.max_pain # NotCalled)
    => /\ analysis.max_pain.den = 1
       /\ analysis.max_pain.num \in Listed
       /\ \A s \in Listed :
            /\ Liability(analysis.max_pain.num) <= Liability(s)
            /\ Liability(s) = Liability(analysis.max_pain.num)
                 => analysis.max_pain.num <= s

\* ------------------------------------------------------ performance metrics
\* Most trades of a trade log handed to _calculate_performance_metrics.
MaxTrades == 4

\* Trade logs: trade k entered at bar k, with a loss, a flat or a win.
TradeLogs ==
  UNION { { [k \in 1..n |-> [entry_time |-> k, pnl |-> p[k]]] :
              p \in [1..n -> {-1, 0, 1}] } : n \in 0..MaxTrades }

\* `t['pnl'] > 0`
IsWinningOrFlat(t) == t.pnl >= 0

IsWinning(t) == t.pnl > 0

\* len([t for t in trades if t['pnl'] > 0])
RECURSIVE CountWinning(_, _)
CountWinning(log, n) ==
  IF n = 0 THEN 0
  ELSE CountWinning(log, n - 1) + (IF IsWinning(log[n]) THEN 1 ELSE 0)

\* Lines 190-194 of _calculate_performance_metrics; win_rate is the fraction
\* winning_trades / total_trades, or the number 0.
calculate_performance_metrics(log) ==
  LET total_trades == Len(log)
      winning_trades == CountWinning(log, Len(log))
      losing_trades == total_trades - winning_trades
      win_rate == IF total_trades > 0
                    THEN Ratio(winning_trades, total_trades)
                    ELSE Ratio(0, 1)
  IN [total_trades |-> total_trades,
      winning_trades |-> winning_trades,
      losing_trades |-> losing_trades,
      win_rate |-> win_rate,
      total_pnl |-> SumPnl(log, Len(log))]

InitMetrics ==
  /\ IdleRest
  /\ NoOptions
  /\ NoGenerate
  /\ NoCharts
  /\ trade_log \in TradeLogs
  /\ metrics = <<>>

\* run_backtest hands its trades to _calculate_performance_metrics.
CalculateMetrics ==
  /\ metrics = <<>>
  /\ metrics' = calculate_performance_metrics(trade_log)
  /\ UNCHANGED <<trade_log, rest_vars, options_vars, gen_vars, chart_vars>>

NextMetrics == CalculateMetrics

SpecMetrics == InitMetrics /\ [][NextMetrics]_vars

\* C24: win_rate is winning_trades / total_trades for a log of at least one
\* trade and 0 for an empty log; winning_trades is the number of trades with
\* pnl > 0, and winning_trades + losing_trades = total_trades, so that a
\* trade with pnl = 0 is a losing one.
C24_WinRate ==
  metrics # <<>> =>
    /\ metrics.total_trades = Len(trade_log)
    /\ metrics.winning_trades =
         Cardinality({k \in 1..Len(trade_log) : trade_log[k].pnl > 0})
    /\ metrics.losing_trades =
         Cardinality({k \in 1..Len(trade_log) : trade_log[k].pnl <= 0})
    /\ metrics.winning_trades + metrics.losing_trades = metrics.total_trades
    /\ metrics.win_rate.k = "ratio"
    /\ metrics.win_rate.den # 0
    /\ IF Len(trade_log) > 0
         THEN metrics.win_rate.num * metrics.total_trades
                = metrics.winning_trades * metrics.win_rate.den
         ELSE metrics.win_rate.num = 0

\* A log with a flat trade, and one win among three trades.
C24_Witness ==
  /\ metrics # <<>>
  /\ Len(trade_log) = 3
  /\ trade_log[1].pnl = 1
  /\ trade_log[2].pnl = 0
  /\ trade_log[3].pnl = -1
  /\ metrics.win_rate = Ratio(1, 3)

\* The empty log.
C24_WitnessEmpty ==
  /\ metrics # <<>>
  /\ trade_log = <<>>
  /\ metrics.win_rate = Ratio(0, 1)

\* ------------------------------------------------------ chart pattern order
\* The frames of analyze_chart_patterns: 24 rows labelled 0..23, flat at
\* `base`, with bars reaching `peak` or `trough` at chosen rows.
ChartScenario == [rows |-> 24, base |-> 100, peak |-> 120, trough |-> 80]

ChartFrame(peak_rows, trough_rows) ==
  [n \in 1..ChartScenario.rows |->
     LET r == n - 1
     IN IF r \in peak_rows
          THEN Bar(r, ChartScenario.base, ChartScenario.peak, 1)
        ELSE IF r \in trough_rows
          THEN Bar(r, ChartScenario.trough, ChartScenario.base, 1)
        ELSE Bar(r, ChartScenario.base, ChartScenario.base, 1)]

\* No, one or two peaks and no, one or two troughs, early or late in the
\* series.
ChartFrames ==
  { ChartFrame(p, t) :
      p \in {{}, {2}, {2, 6}, {4, 8}, {8, 22}},
      t \in {{}, {3}, {3, 7}, {5, 9}, {9, 21}} }

\* The patterns of iteration i, each with the first row of its window
\* slice_df = df.iloc[i-window:i].
InWindow(found, i) ==
  [k \in 1..Len(found) |->
     [pattern_type |-> found[k].pattern_type,
      window_start |-> i - DoubleTopLookBack,
      price_target |-> found[k].price_target]]

\* analyze_chart_patterns(df) is called and calls _find_double_tops_bottoms.
InitCharts ==
  /\ IdleBacktest
  /\ NoCompare
  /\ NoRegime
  /\ NoValidation
  /\ max_position_size = 2
  /\ strategy = NoStrategy
  /\ verdict = "unset"
  /\ NoOptions
  /\ NoMetrics
  /\ NoGenerate
  /\ bars \in ChartFrames
  /\ scan = DoubleTopLookBack
  /\ patterns = <<>>
  /\ finder = "double_tops_bottoms"

chart_rest ==
  <<args, run_state, strategy, verdict, altered_data, altered_options,
    observed, inputs, run, first, regime_vars, ml_vars, options_vars,
    metrics_vars, gen_vars>>

\* One iteration of `for i in range(window, len(df))` of
\* _find_double_tops_bottoms.
ChartScanStep ==
  /\ finder = "double_tops_bottoms"
  /\ scan < Len(bars)
  /\ patterns' = patterns \o InWindow(double_tops_bottoms_at(bars, scan), scan)
  /\ scan' = scan + 1
  /\ UNCHANGED <<bars, finder, chart_rest>>

\* _find_double_tops_bottoms returns its list and line 248 extends the empty
\* `patterns` with it.
ExtendDoubleTopsBottoms ==
  /\ finder = "double_tops_bottoms"
  /\ scan = Len(bars)
  /\ finder' = "head_and_shoulders"
  /\ UNCHANGED <<bars, scan, patterns, chart_rest>>

\* _find_head_and_shoulders: range(30, len(df)) is empty for a frame of
\* under 31 rows, and line 249 extends `patterns` with the empty list.
ExtendHeadAndShoulders ==
  /\ finder = "head_and_shoulders"
  /\ Len(bars) <= 30
  /\ finder' = "triangles"
  /\ UNCHANGED <<bars, scan, patterns, chart_rest>>

\* _find_triangles is `pass` and returns None: patterns.extend(None) of line
\* 250 raises TypeError, which leaves analyze_chart_patterns.
ExtendTriangles ==
  /\ finder = "triangles"
  /\ finder' = "raised"
  /\ UNCHANGED <<bars, scan, patterns, chart_rest>>

NextCharts ==
  \/ ChartScanStep
  \/ ExtendDoubleTopsBottoms
  \/ ExtendHeadAndShoulders
  \/ ExtendTriangles

SpecCharts == InitCharts /\ [][NextCharts]_vars

\* Pattern type names in alphabetical order.
TypeNameRank(type) == IF type = "double_bottom" THEN 1 ELSE 2

\* C25: the pattern list of the detector is sorted by the start index of the
\* detection window and then by pattern type name: a pattern of an earlier
\* window stands before one of a later window, and within one window
\* double_bottom stands before double_top.
C25_StableOrder ==
  finder # "idle" =>
    \A j, k \in 1..Len(patterns) :
      j < k =>
        \/ patterns[j].window_start < patterns[k].window_start
        \/ /\ patterns[j].window_start = patterns[k].window_start
           /\ TypeNameRank(patterns[j].pattern_type)
                < TypeNameRank(patterns[k].pattern_type)

\* ------------------------------------------------- runs on irregular series
\* Timestamps of a series: regular, with a gap before the last bar, and with
\* the first two bars in the wrong order.
TimestampLists ==
  { [i \in 1..NBars |-> i],
    [i \in 1..NBars |-> IF i = NBars THEN i + 1 ELSE i],
    [i \in 1..NBars |-> IF i = 1 THEN 2 ELSE IF i = 2 THEN 1 ELSE i] }

InitQuality ==
  /\ historical_data \in
       { [i \in 1..NBars |-> Bar(ts[i], i, i + 1, 1)] : ts \in TimestampLists }
  /\ options_chain_data = BtOptions
  /\ start_date = 1
  /\ end_date = NBars + 1
  /\ initial_capital \in {100000}
  /\ position_size_pct = 2
  /\ strategy_generator = "StrategyGenerator"
  /\ mock_mode = FALSE
  /\ max_position_size = 2
  /\ InitRun
  /\ pc = "loop"
  /\ idx = 0
  /\ awaiting = {}
  /\ last = NoLast
  /\ strategy = NoStrategy
  /\ verdict = "unset"
  /\ NoSide

SpecQuality == InitQuality /\ [][Next]_vars

\* The bars of a series follow each other at the bar interval.
RegularSeries ==
  \A i \in 1..(Len(historical_data) - 1) :
    historical_data[i + 1].timestamp = historical_data[i].timestamp + 1

\* C26: on a series with a gap or with timestamps out of order, the run
\* fails before a bar is simulated: no row is taken by the loop, no oracle
\* call is awaited, no trade is recorded and the run does not return a
\* result.
C26_DataQuality ==
  ~RegularSeries =>
    /\ idx = 0
    /\ awaiting = {}
    /\ trades = <<>>
    /\ pc # "done"

\* ------------------------------------------------- date range and execution
\* The rows whose timestamp lies in [start_date, end_date].
RowsInDates ==
  {i \in 1..Len(historical_data) :
     /\ historical_data[i].timestamp >= start_date
     /\ historical_data[i].timestamp <= end_date}

\* C27: the bars simulated are exactly those with a timestamp in the closed
\* interval [start_date, end_date]: only such a row awaits the oracle or has
\* a trade, the row the loop stands on has had its oracle call exactly if it
\* lies in the interval (its ends included), and no row has two trades.
C27_DateRange ==
  /\ awaiting \subseteq RowsInDates
  /\ \A k \in 1..Len(trades) :
       \E i \in RowsInDates :
         /\ i <= idx
         /\ trades[k].entry_time = historical_data[i].timestamp
  /\ \A j, k \in 1..Len(trades) :
       j # k => trades[j].entry_time # trades[k].entry_time
  /\ (idx >= 1 /\ pc # "cancelled")
       => (idx \in RowsInDates <=> (idx \in awaiting \/ last.bar = idx))
  /\ last.bar \in RowsInDates \cup {0}

\* A run from the first bar to the last but one: the bars at start_date and
\* at end_date were traded, the bar after end_date was not.
C27_Witness ==
  /\ pc = "done"
  /\ start_date = 1
  /\ end_date = NBars - 1
  /\ Len(trades) = NBars - 1
  /\ trades[1].entry_time = start_date
  /\ trades[Len(trades)].entry_time = end_date
  /\ last.bar = NBars - 1

\* _execute_trade was called for the bar processed last and returned None:
\* the simulated fill raised, or the strategy has no 'strategy_type'.
ExecutionFailed ==
  /\ last.bar # 0
  /\ strategy_generator = "StrategyGenerator"
  /\ \/ last.exec = "error"
     \/ "strategy_type" \notin generate_strategy(last.llm).fields

\* C28: a bar whose trade execution failed leaves the trade log, the capital
\* and the equity curve as they were before the bar, and the run goes on:
\* the loop takes the next row or, after the last row, returns the result.
C28_ExecutionFailure ==
  ExecutionFailed
    => /\ trades = last.trades
       /\ equity = last.equity
       /\ current_capital = last.capital
       /\ last.bar = idx => pc \in {"loop", "done"}
       /\ (pc = "loop" /\ idx < Len(historical_data)) => ENABLED Iterate
       /\ (pc = "loop" /\ idx = Len(historical_data)) => ENABLED Finish

\* A failed execution on a bar after a recorded trade, with rows left.
C28_Witness ==
  /\ ExecutionFailed
  /\ last.exec = "error"
  /\ last.bar = idx
  /\ idx < NBars
  /\ Len(trades) >= 1
  /\ pc = "loop"

\* The run has gone through to the end after a failed execution.
C28_WitnessDone ==
  /\ ExecutionFailed
  /\ pc = "done"
  /\ last.bar = NBars

\* ------------------------------------------- generate_strategy step by step
\* Statuses of a remote run; the last four are final.
FinalStatuses == {"completed", "failed", "cancelled", "expired"}

\* The dicts the assistant's reply can hold.
GenProposals ==
  {s \in TestStrategies : s.fields \in {AllFields, AllFields \ {"stop_loss"}}}

\* messages.data[0].content[0].text.value: a text with a JSON object in it,
\* or a text without one.
Replies ==
  {[kind |-> "json", proposal |-> p] : p \in GenProposals}
    \cup {[kind |-> "prose", proposal |-> NoStrategy]}

\* _parse_strategy_response: json.loads of the text between the first '{'
\* and the last '}'; a text without a JSON object raises ValueError.
parse_strategy_response(reply) ==
  IF reply.kind = "json"
    THEN [outcome |-> "parsed", strategy |-> reply.proposal]
    ELSE [outcome |-> "raised", strategy |-> NoStrategy]

\* generate_strategy(market_data) is called.
InitGenerate ==
  /\ historical_data = [i \in 1..NBars |-> Bar(i, i, i + 1, 1)]
  /\ options_chain_data = BtOptions
  /\ start_date = 1
  /\ end_date = NBars
  /\ initial_capital = 100000
  /\ position_size_pct = 2
  /\ strategy_generator = "StrategyGenerator"
  /\ mock_mode \in BOOLEAN
  /\ max_position_size \in {1, 2}
  /\ InitRun
  /\ pc = "idle"
  /\ idx = 0
  /\ awaiting = {}
  /\ last = NoLast
  /\ strategy = NoStrategy
  /\ verdict = "unset"
  /\ NoCompare
  /\ NoRegime
  /\ NoScan
  /\ NoValidation
  /\ NoOptions
  /\ NoMetrics
  /\ NoCharts
  /\ gpc = "enrich"
  /\ run_status = "none"
  /\ response = <<>>
  /\ returned = <<>>

gen_rest ==
  <<args, run_state, altered_data, altered_options, observed, inputs, run,
    first, regime_vars, scan_vars, ml_vars, options_vars, metrics_vars,
    chart_vars>>

\* Lines 104-107: the market data is enriched (no exception leaves
\* _enrich_market_data); in mock mode the mock strategy is returned.
Enrich ==
  /\ gpc = "enrich"
  /\ IF mock_mode
       THEN gpc' = "returned" /\ returned' = MockStrategy
       ELSE gpc' = "create" /\ returned' = returned
  /\ UNCHANGED <<run_status, response, strategy, verdict, gen_rest>>

\* Lines 110-123: the prompt is posted and the run created.
CreateRun ==
  /\ gpc = "create"
  /\ run_status' = "queued"
  /\ gpc' = "poll"
  /\ UNCHANGED <<response, returned, strategy, verdict, gen_rest>>

\* Lines 127-132: the status is retrieved; only 'completed' leaves the loop.
Retrieve ==
  /\ gpc = "poll"
  /\ gpc' = IF run_status = "completed" THEN "list" ELSE "sleep"
  /\ UNCHANGED <<run_status, response, returned, strategy, verdict, gen_rest>>

\* Line 133: asyncio.sleep(1) is over.
Sleep ==
  /\ gpc = "sleep"
  /\ gpc' = "poll"
  /\ UNCHANGED <<run_status, response, returned, strategy, verdict, gen_rest>>

\* Lines 136-141: the reply is listed and parsed; a reply that does not
\* parse raises ValueError, answered by the except clause of line 147.
ListMessages ==
  /\ gpc = "list"
  /\ LET parsed == parse_strategy_response(response)
     IN IF parsed.outcome = "parsed"
          THEN /\ strategy' = parsed.strategy
               /\ gpc' = "validate"
               /\ returned' = returned
          ELSE /\ strategy' = strategy
               /\ gpc' = "returned"
               /\ returned' = MockStrategy
  /\ UNCHANGED <<run_status, response, verdict, gen_rest>>

\* Lines 142-149: the strategy is validated and returned, or ValueError is
\* raised and answered with the mock strategy.
ValidateGenerated ==
  /\ gpc = "validate"
  /\ verdict' = validate_strategy(strategy)
  /\ returned' = IF validate_strategy(strategy) = "True"
                   THEN strategy ELSE MockStrategy
  /\ gpc' = "returned"
  /\ UNCHANGED <<run_status, response, strategy, gen_rest>>

\* A call of the client raises (connection, rate limit): line 147.
ApiError ==
  /\ gpc \in {"create", "poll", "list"}
  /\ gpc' = "returned"
  /\ returned' = MockStrategy
  /\ UNCHANGED <<run_status, response, strategy, verdict, gen_rest>>

\* The remote run starts.
RunStarts ==
  /\ run_status = "queued"
  /\ run_status' = "in_progress"
  /\ UNCHANGED <<gpc, response, returned, strategy, verdict, gen_rest>>

\* The remote run ends: completed with a reply, or failed, cancelled or
\* expired without one.
RunEnds ==
  /\ run_status \in {"queued", "in_progress"}
  /\ \E s \in FinalStatuses :
       /\ run_status' = s
       /\ IF s = "completed"
            THEN response' \in Replies
            ELSE response' = response
  /\ UNCHANGED <<gpc, returned, strategy, verdict, gen_rest>>

CoroutineStep ==
  \/ Enrich
  \/ CreateRun
  \/ Retrieve
  \/ Sleep
  \/ ListMessages
  \/ ValidateGenerated

NextGenerate ==
  \/ CoroutineStep
  \/ ApiError
  \/ RunStarts
  \/ RunEnds

SpecGenerate == InitGenerate /\ [][NextGenerate]_vars

\* The coroutine is scheduled whenever it can run, and the remote run
\* reaches a final status.
SpecGenerateFair ==
  /\ SpecGenerate
  /\ WF_vars(CoroutineStep)
  /\ WF_vars(RunStarts \/ RunEnds)

\* C29: generate_strategy returns in the end, whatever becomes of the remote
\* run.
C29_EventuallyReturns == <>(gpc = "returned")

\* The call returns the strategy it validated.
Accepted ==
  /\ verdict = "True"
  /\ gpc = "returned"
  /\ returned = strategy

\* C30: a parsed proposal with an action other than BUY and SELL, with all
\* required fields and a position size within the limit, is accepted whatever
\* its price levels are; and a call in mock mode returns the mock strategy
\* with validate_strategy never called.
C30_UncheckedPaths ==
  /\ (/\ verdict # "unset"
      /\ strategy.action \notin {"BUY", "SELL"}
      /\ RequiredFields \subseteq strategy.fields
      /\ strategy.position_size.k = "num"
      /\ strategy.position_size.v <= max_position_size)
       => Accepted
  /\ mock_mode
       => /\ verdict = "unset"
          /\ gpc \in {"enrich", "returned"}
          /\ gpc = "returned" => returned = MockStrategy

\* A HOLD proposal whose price levels are in neither order was returned.
C30_Witness ==
  /\ Accepted
  /\ ~mock_mode
  /\ strategy.action = "HOLD"
  /\ strategy.stop_loss = Num(2)
  /\ strategy.entry_price = Num(3)
  /\ strategy.take_profit = Num(1)

\* A call in mock mode has returned.
C30_WitnessMock ==
  /\ mock_mode
  /\ gpc = "returned"
  /\ returned = MockStrategy
  /\ verdict = "unset"

====
